---- MODULE Spec2Model ----
(***************************************************************************)
(* Model of http/src/v0/root_files.rs: the `cat` and `get` request         *)
(* handlers, the `walk` archive stream and the TarHelper that turns        *)
(* unixfs visitation events into tar byte chunks.                          *)
(*                                                                         *)
(* Bytes are naturals 0..255.  A tar header is kept field by field, each   *)
(* field holding its literal bytes, so that as_bytes is the real 512-byte  *)
(* block and the checksum is the real byte sum.  File content is the only  *)
(* thing kept symbolically: a content chunk names the range of the file    *)
(* it carries (offset, length) instead of listing the bytes.               *)
(***************************************************************************)
EXTENDS Integers, Sequences, FiniteSets, Bags, TLC

(***************************************************************************)
(* Bounds of the model.                                                    *)
(***************************************************************************)
\* the walk reports at most this many visitation events (blocks fetched)
MaxEvents == 2

(***************************************************************************)
(* Program constants.                                                      *)
(***************************************************************************)
BlockSize == 512          \* tar block, root_files.rs:471 and the 512-byte headers
BufSize == 16 * 1024      \* TarHelper::with_buffer_sizes(16 * 1024), root_files.rs:108
NameLen == 100            \* header.as_old().name.len(), root_files.rs:536
LinkNameLen == 100        \* header.as_old().linkname.len(), root_files.rs:437

None == <<>>
Some(x) == <<x>>

Min(a, b) == IF a < b THEN a ELSE b

\* F applied to the value of e, with e evaluated once
Bind(e, F(_)) == CHOOSE r \in {F(x) : x \in {e}} : TRUE

Zeros(n) == [i \in 1..n |-> 0]

\* the sum of the bytes of s: the size of the bag that holds index i s[i]
\* times
SumBytes(s) ==
    LET pos == {i \in 1..Len(s) : s[i] > 0}
    IN IF pos = {} THEN 0 ELSE BagCardinality([i \in pos |-> s[i]])

\* ASCII
Slash == 47
Dot == 46

(***************************************************************************)
(* tar::Header, as used by the TarHelper (GNU layout).                     *)
(***************************************************************************)
\* octal_into: the low digits of val right-aligned before the field's last
\* byte, padded with '0'; the last byte is left as it was
octal_into(dst, val) ==
    Bind(val, LAMBDA v :
        [i \in 1..Len(dst) |->
            IF i = Len(dst) THEN dst[i]
            ELSE 48 + ((v \div (8 ^ (Len(dst) - 1 - i))) % 8)])

\* the number an octal field holds (digits up to the first NUL or space)
RECURSIVE octal_from(_, _)
octal_from(field, acc) ==
    IF field = <<>> \/ field[1] < 48 \/ field[1] > 55 THEN acc
    ELSE octal_from(Tail(field), acc * 8 + (field[1] - 48))

\* Header::new_gnu(): a zeroed block with the GNU magic and mtime 0
new_gnu ==
    [ name     |-> Zeros(NameLen),
      mode     |-> Zeros(8),
      uid      |-> Zeros(8),
      gid      |-> Zeros(8),
      size     |-> Zeros(12),
      mtime    |-> octal_into(Zeros(12), 0),
      cksum    |-> Zeros(8),
      typeflag |-> 0,
      linkname |-> Zeros(LinkNameLen) ]

\* "ustar " and " \0"
Magic == <<117, 115, 116, 97, 114, 32, 32, 0>>

\* bytes 1..148 of the block: everything before the checksum field
BeforeCksum(h) == h.name \o h.mode \o h.uid \o h.gid \o h.size \o h.mtime

\* bytes 157..512: everything after the checksum field (the fields after
\* the version are never written and stay zero)
AfterCksum(h) == <<h.typeflag>> \o h.linkname \o Magic \o Zeros(247)

\* Header::as_bytes
as_bytes(h) == BeforeCksum(h) \o h.cksum \o AfterCksum(h)

\* Header::calculate_cksum: the byte sum with the checksum field read as
\* eight spaces
calculate_cksum(h) == SumBytes(BeforeCksum(h)) + 8 * 32 + SumBytes(AfterCksum(h))

set_cksum(h) ==
    Bind(h, LAMBDA x : [x EXCEPT !.cksum = octal_into(@, calculate_cksum(x))])
set_size(h, v) == [h EXCEPT !.size = octal_into(@, v)]
set_mode(h, v) == [h EXCEPT !.mode = octal_into(@, v)]
set_mtime(h, v) == [h EXCEPT !.mtime = octal_into(@, v)]
set_uid(h, v) == [h EXCEPT !.uid = octal_into(@, v)]
set_gid(h, v) == [h EXCEPT !.gid = octal_into(@, v)]
set_entry_type(h, t) == [h EXCEPT !.typeflag = t]

\* EntryType bytes
Regular == 48       \* '0'
Symlink == 50       \* '2'
Directory == 53     \* '5'
GNULongName == 76   \* 'L'
GNULongLink == 75   \* 'K'

(***************************************************************************)
(* Paths.  A path is its bytes (path2bytes on unix, root_files.rs:557).    *)
(* Header::set_path and Header::set_link_name copy a path into a 100-byte  *)
(* field component by component (tar's copy_path_into).                    *)
(***************************************************************************)
Range(s) == {s[i] : i \in 1..Len(s)}

\* where the components of p begin: a byte that is no slash, at the start
\* or right after a slash
PieceStarts(p) ==
    {i \in 1..Len(p) : p[i] # Slash /\ (i = 1 \/ p[i - 1] = Slash)}

\* the last byte of the component that begins at i: the byte before the
\* next slash, or the last byte of the path
PieceEnd(p, i) ==
    LET slashes == {k \in i..Len(p) : p[k] = Slash}
    IN IF slashes = {} THEN Len(p)
       ELSE (CHOOSE k \in slashes : \A j \in slashes : k <= j) - 1

RECURSIVE PiecesFrom(_, _)
PiecesFrom(p, starts) ==
    IF starts = {} THEN <<>>
    ELSE LET i == CHOOSE x \in starts : \A y \in starts : x <= y
         IN <<[at |-> i, bytes |-> SubSeq(p, i, PieceEnd(p, i))]>>
                \o PiecesFrom(p, starts \ {i})

\* Path::components: a leading slash is the root, `.` survives only as the
\* first component, `..` is the parent directory, empty pieces vanish
ComponentKind(bytes) ==
    IF bytes = <<Dot, Dot>> THEN "ParentDir"
    ELSE IF bytes = <<Dot>> THEN "CurDir"
    ELSE "Normal"

Components(p) ==
    Bind(SelectSeq(PiecesFrom(p, PieceStarts(p)),
                   LAMBDA pc : ComponentKind(pc.bytes) # "CurDir" \/ pc.at = 1),
         LAMBDA kept :
            (IF p # <<>> /\ p[1] = Slash
             THEN <<[kind |-> "RootDir", bytes |-> <<Slash>>]>>
             ELSE <<>>)
            \o [i \in 1..Len(kept) |->
                  [kind |-> ComponentKind(kept[i].bytes), bytes |-> kept[i].bytes]])

\* the byte strings copy_path_into copies, in order, and whether it stops
\* with an error after them
RECURSIVE PathTokens(_, _, _, _, _)
PathTokens(comps, count, is_link_name, needs_slash, emitted) ==
    IF comps = <<>> THEN [toks |-> <<>>, fail |-> ~emitted]
    ELSE LET c == Head(comps)
         IN IF ~is_link_name /\ c.kind \in {"RootDir", "ParentDir"}
            THEN [toks |-> <<>>, fail |-> TRUE]
            ELSE IF ~is_link_name /\ c.kind = "CurDir" /\ count # 1
            THEN PathTokens(Tail(comps), count, is_link_name, needs_slash, emitted)
            ELSE Bind(PathTokens(Tail(comps), count, is_link_name,
                                 c.bytes # <<Slash>>, TRUE),
                      LAMBDA rest :
                         [toks |-> (IF needs_slash THEN <<(<<Slash>>)>> ELSE <<>>)
                                      \o <<c.bytes>> \o rest.toks,
                          fail |-> rest.fail])

\* copy_into, token after token: a token that does not fit what is left of
\* the field, or holds a NUL, is an error; otherwise it is written followed
\* by one NUL when there is room (the rest of the field keeps its bytes)
RECURSIVE CopyTokens(_, _, _)
CopyTokens(field, pos, toks) ==
    IF toks = <<>> THEN [ok |-> TRUE, field |-> field]
    ELSE LET b == Head(toks)
         IN IF Len(b) > Len(field) - pos \/ 0 \in Range(b)
            THEN [ok |-> FALSE, field |-> field]
            ELSE CopyTokens(
                    [i \in 1..Len(field) |->
                        IF i > pos /\ i <= pos + Len(b) THEN b[i - pos]
                        ELSE IF i = pos + Len(b) + 1 THEN 0
                        ELSE field[i]],
                    pos + Len(b), Tail(toks))

copy_path_into(field, path, is_link_name) ==
    Bind(Components(path), LAMBDA comps :
    Bind(PathTokens(comps, Len(comps), is_link_name, FALSE, FALSE), LAMBDA pt :
    Bind(CopyTokens(field, 0,
                    IF ~pt.fail /\ path # <<>> /\ path[Len(path)] = Slash
                    THEN pt.toks \o <<(<<Slash>>)>>
                    ELSE pt.toks),
         LAMBDA r : [ok |-> r.ok /\ ~pt.fail, field |-> r.field])))

\* Header::set_path / Header::set_link_name: the result and the header as
\* the call leaves it
set_path(h, path) ==
    Bind(copy_path_into(h.name, path, FALSE),
         LAMBDA r : [ok |-> r.ok, header |-> [h EXCEPT !.name = r.field]])

set_link_name(h, target) ==
    Bind(copy_path_into(h.linkname, target, TRUE),
         LAMBDA r : [ok |-> r.ok, header |-> [h EXCEPT !.linkname = r.field]])

\* what a reader of the header takes the field to hold: the bytes up to the
\* first NUL
FieldText(field) ==
    LET nuls == {i \in 1..Len(field) : field[i] = 0}
    IN IF nuls = {} THEN field
       ELSE SubSeq(field, 1, (CHOOSE i \in nuls : \A j \in nuls : i <= j) - 1)

\* std::str::from_utf8 on the bytes this model uses: ASCII is valid, 0xF8
\* and above never is
from_utf8_ok(bytes) == \A i \in 1..Len(bytes) : bytes[i] < 128

(***************************************************************************)
(* Chunks.  A chunk is the sequence of parts put into a buffer between two *)
(* flushes: a header block, literal bytes, a range of the current file's   *)
(* content, or a slice of the shared zero block.                           *)
(***************************************************************************)
HeaderPart(h) == [kind |-> "header", hdr |-> h]
BytesPart(bs) == [kind |-> "bytes", data |-> bs]
ContentPart(off, len) == [kind |-> "content", off |-> off, len |-> len]
ZeroesPart(len) == [kind |-> "zeroes", len |-> len]

PartLen(p) ==
    CASE p.kind = "header" -> Len(as_bytes(p.hdr))
      [] p.kind = "bytes" -> Len(p.data)
      [] p.kind = "content" -> p.len
      [] p.kind = "zeroes" -> p.len

RECURSIVE ChunkLen(_)
ChunkLen(c) == IF c = <<>> THEN 0 ELSE PartLen(c[1]) + ChunkLen(Tail(c))

\* BytesMut::put_slice / put_u8: append to what the buffer holds (literal
\* bytes run together)
put_slice(buf, part) ==
    IF /\ buf.data # <<>>
       /\ buf.data[Len(buf.data)].kind = "bytes"
       /\ part.kind = "bytes"
    THEN [buf EXCEPT !.data[Len(buf.data)].data = @ \o part.data]
    ELSE [buf EXCEPT !.data = Append(@, part)]

put_u8(buf, b) == put_slice(buf, BytesPart(<<b>>))

(***************************************************************************)
(* TarHelper (root_files.rs:276-488).                                      *)
(***************************************************************************)
Mode0644 == 420     \* 0o644
Mode0755 == 493     \* 0o755
ModeMask == 4096    \* mode & 0o7777

new_default_header == set_gid(set_uid(set_mtime(new_gnu, 0), 0), 0)

\* "././@LongLink" followed by zeroes over the whole name field
LongLinkName ==
    <<46, 47, 46, 47, 64, 76, 111, 110, 103, 76, 105, 110, 107>>

new_long_filename_header ==
    LET h == set_mode(new_gnu, Mode0644)
        named == [h EXCEPT !.name =
                     [i \in 1..Len(h.name) |->
                         IF i <= Len(LongLinkName) THEN LongLinkName[i] ELSE 0]]
    IN set_gid(set_uid(set_mtime(named, 0), 0), 0)

with_buffer_sizes(n) ==
    [ bufsize |-> n,
      written |-> [id |-> "a", data |-> <<>>],
      other   |-> [id |-> "b", data |-> <<>>],
      header  |-> new_default_header,
      long_filename_header |-> new_long_filename_header ]

\* `self.written.put_slice(..)` on the helper
th_put(th, part) == [th EXCEPT !.written = put_slice(@, part)]

\* a flush that hands the chunk out and swaps, leaving the bytes in the
\* buffer they were written to
flush_into_keeps_data(fr, i) ==
    Bind(fr, LAMBDA f :
        [ th  |-> [f.th EXCEPT !.written = f.th.other,
                               !.other = f.th.written],
          ret |-> [f.ret EXCEPT ![i] = Some(f.th.written.data)] ])

\* `self.written.split().freeze()` then `mem::swap(written, other)`, with
\* the chunk taken stored in slot i of ret: fr is the call's frame, the
\* helper and the ret array
flush_into(fr, i) ==
    Bind(fr, LAMBDA f :
        [ th  |-> [f.th EXCEPT !.written = f.th.other,
                               !.other = [f.th.written EXCEPT !.data = <<>>]],
          ret |-> [f.ret EXCEPT ![i] = Some(f.th.written.data)] ])

\* `self.written.put_slice(..)` in a frame
fr_put(fr, part) == [fr EXCEPT !.th = th_put(@, part)]

\* `let mut ret: [Option<Bytes>; k] = Default::default()`
Frame(th, k) == [th |-> th, ret |-> [i \in 1..k |-> None]]

\* pad with the test `padding <= 512`: a whole block of zeroes after an
\* aligned size
pad_full_block(total_size) ==
    Some(<<ZeroesPart(BlockSize - (total_size % BlockSize))>>)

\* TarHelper::pad
pad(total_size) ==
    LET padding == BlockSize - (total_size % BlockSize)
    IN IF padding < BlockSize THEN Some(<<ZeroesPart(padding)>>) ELSE None

\* set_metadata that forces the modification time to 0
set_metadata_zero_mtime(header, metadata, default_mode) ==
    LET mode == IF metadata.mode # None THEN metadata.mode[1] % ModeMask
                ELSE default_mode
    IN set_mtime(set_mode(header, mode), 0)

\* TarHelper::set_metadata
set_metadata(header, metadata, default_mode) ==
    LET mode == IF metadata.mode # None THEN metadata.mode[1] % ModeMask
                ELSE default_mode
        mtime == IF metadata.mtime # None /\ metadata.mtime[1] >= 0
                 THEN metadata.mtime[1] ELSE 0
    IN set_mtime(set_mode(header, mode), mtime)

\* prepare_long_header announcing the length of the path without the NUL
prepare_long_header_no_plus_one(header, long_filename_header, path) ==
    IF Len(path) < Len(header.name)
    THEN [ err |-> "InvalidFileName", data |-> path, header |-> header,
           long_filename_header |-> long_filename_header ]
    ELSE Bind(set_path(header, SubSeq(path, 1, Len(header.name))), LAMBDA sp :
            [ err |-> IF sp.ok THEN "none" ELSE "panic",
              data |-> path,
              header |-> sp.header,
              long_filename_header |->
                  set_cksum(set_entry_type(
                      set_size(long_filename_header, Len(path)),
                      GNULongName)) ])

\* prepare_long_header: the error if any, the bytes to write as the long
\* name, and both headers as the call leaves them
prepare_long_header(header, long_filename_header, path) ==
    IF Len(path) < Len(header.name)
    THEN [ err |-> "InvalidFileName", data |-> path, header |-> header,
           long_filename_header |-> long_filename_header ]
    ELSE Bind(set_path(header, SubSeq(path, 1, Len(header.name))), LAMBDA sp :
            [ err |-> IF sp.ok THEN "none" ELSE "panic",
              data |-> path,
              header |-> sp.header,
              long_filename_header |->
                  set_cksum(set_entry_type(
                      set_size(long_filename_header, Len(path) + 1),
                      GNULongName)) ])

\* the chunks of a long name or long link without the NUL after the bytes
long_chunks_no_nul(fr, data, i) ==
    Bind(flush_into(fr_put(fr, HeaderPart(fr.th.long_filename_header)), i),
         LAMBDA f0 :
    Bind(flush_into([f0 EXCEPT !.th.written = put_slice(@, BytesPart(data))], i + 1),
         LAMBDA f1 : [f1 EXCEPT !.ret[i + 2] = pad(Len(data) + 1)]))

\* the three chunks of a long name or long link: the marker header in slot
\* i, the bytes and a NUL in slot i + 1, the pad in slot i + 2
long_chunks(fr, data, i) ==
    Bind(flush_into(fr_put(fr, HeaderPart(fr.th.long_filename_header)), i),
         LAMBDA f0 :
    Bind(flush_into([f0 EXCEPT !.th.written =
                        put_u8(put_slice(@, BytesPart(data)), 0)], i + 1),
         LAMBDA f1 : [f1 EXCEPT !.ret[i + 2] = pad(Len(data) + 1)]))

\* the block shared by apply_file, apply_directory and apply_symlink
\* (lines 344-357, 388-401, 419-432): set the path and, when the header
\* refuses it, produce the long-name chunks in the first three slots
apply_path(fr, path) ==
    Bind(set_path(fr.th.header, path), LAMBDA sp :
        IF sp.ok
        THEN [err |-> "none", fr |-> [fr EXCEPT !.th.header = sp.header]]
        ELSE Bind(prepare_long_header(sp.header, fr.th.long_filename_header, path),
                  LAMBDA plh :
                Bind([fr EXCEPT !.th.header = plh.header,
                                !.th.long_filename_header = plh.long_filename_header],
                     LAMBDA fr0 :
                        IF plh.err # "none"
                        THEN [err |-> plh.err, fr |-> fr0]
                        ELSE [err |-> "none", fr |-> long_chunks(fr0, plh.data, 1)])))

\* the result of an apply_* call: Ok(ret) with the helper as it is left,
\* or the error
Returned(err, fr) ==
    [err |-> err, ret |-> IF err = "none" THEN fr.ret ELSE <<>>, th |-> fr.th]

\* the final header of an entry is written into the last slot
final_header(fr, hdr, i) ==
    Bind(hdr, LAMBDA h :
        flush_into(fr_put([fr EXCEPT !.th.header = h], HeaderPart(h)), i))

\* apply_file with the metadata set after the checksum
apply_file_late_metadata(th, path, metadata, total_size) ==
    Bind(apply_path(Frame(th, 4), path), LAMBDA ap :
        IF ap.err # "none" THEN Returned(ap.err, ap.fr)
        ELSE Returned("none",
                final_header(ap.fr,
                    set_metadata(set_cksum(
                        set_entry_type(set_size(ap.fr.th.header, total_size), Regular)),
                        metadata, Mode0644),
                    4)))

\* TarHelper::apply_file
apply_file(th, path, metadata, total_size) ==
    Bind(apply_path(Frame(th, 4), path), LAMBDA ap :
        IF ap.err # "none" THEN Returned(ap.err, ap.fr)
        ELSE Returned("none",
                final_header(ap.fr,
                    set_cksum(set_metadata(
                        set_entry_type(set_size(ap.fr.th.header, total_size), Regular),
                        metadata, Mode0644)),
                    4)))

\* buffer_file_contents that takes all that remains, whatever the buffer size
buffer_file_contents_unbounded(th, contents) ==
    IF contents.len = 0
    THEN [err |-> "panic", ret |-> <<>>, th |-> th]
    ELSE Bind(flush_into(
                 fr_put(Frame(th, 1), ContentPart(contents.off, contents.len)),
                 1),
              LAMBDA f : [err |-> "none", ret |-> f.ret[1][1], th |-> f.th])

\* TarHelper::buffer_file_contents; contents is the rest of the segment,
\* given as the file offset it starts at and its length
buffer_file_contents(th, contents) ==
    IF contents.len = 0
    THEN [err |-> "panic", ret |-> <<>>, th |-> th]
    ELSE Bind(flush_into(
                 fr_put(Frame(th, 1),
                        ContentPart(contents.off, Min(th.bufsize, contents.len))),
                 1),
              LAMBDA f : [err |-> "none", ret |-> f.ret[1][1], th |-> f.th])

\* apply_directory that leaves the size field as the template has it
apply_directory_keeps_size(th, path, metadata) ==
    Bind(apply_path(Frame(th, 4), path), LAMBDA ap :
        IF ap.err # "none" THEN Returned(ap.err, ap.fr)
        ELSE Returned("none",
                final_header(ap.fr,
                    set_cksum(set_metadata(
                        set_entry_type(ap.fr.th.header, Directory),
                        metadata, Mode0755)),
                    4)))

\* TarHelper::apply_directory
apply_directory(th, path, metadata) ==
    Bind(apply_path(Frame(th, 4), path), LAMBDA ap :
        IF ap.err # "none" THEN Returned(ap.err, ap.fr)
        ELSE Returned("none",
                final_header(ap.fr,
                    set_cksum(set_metadata(
                        set_entry_type(set_size(ap.fr.th.header, 0), Directory),
                        metadata, Mode0755)),
                    4)))

\* lines 434-456 with the size of the marker left as the template has it
apply_link_name_keeps_size(fr, target) ==
    Bind(set_link_name(fr.th.header, target), LAMBDA sl :
    Bind([fr EXCEPT !.th.header = sl.header], LAMBDA fr0 :
        IF sl.ok THEN [err |-> "none", fr |-> fr0]
        ELSE IF Len(target) < Len(fr.th.header.linkname)
        THEN [err |-> "panic", fr |-> fr0]
        ELSE [err |-> "none",
              fr |-> long_chunks(
                        [fr0 EXCEPT !.th.long_filename_header =
                            set_cksum(set_entry_type(@, GNULongLink))],
                        target, 4)]))

\* lines 434-456 with the marker of a long target left as type 'L'
apply_link_name_type_L(fr, target) ==
    Bind(set_link_name(fr.th.header, target), LAMBDA sl :
    Bind([fr EXCEPT !.th.header = sl.header], LAMBDA fr0 :
        IF sl.ok THEN [err |-> "none", fr |-> fr0]
        ELSE IF Len(target) < Len(fr.th.header.linkname)
        THEN [err |-> "panic", fr |-> fr0]
        ELSE [err |-> "none",
              fr |-> long_chunks(
                        [fr0 EXCEPT !.th.long_filename_header =
                            set_cksum(set_entry_type(
                                set_size(@, Len(target) + 1), GNULongName))],
                        target, 4)]))

\* lines 434-456 of apply_symlink: set the link name and, when the header
\* refuses it, produce the long-link chunks in the next three slots
apply_link_name(fr, target) ==
    Bind(set_link_name(fr.th.header, target), LAMBDA sl :
    Bind([fr EXCEPT !.th.header = sl.header], LAMBDA fr0 :
        IF sl.ok THEN [err |-> "none", fr |-> fr0]
        ELSE IF Len(target) < Len(fr.th.header.linkname)
        THEN [err |-> "panic", fr |-> fr0]
        ELSE [err |-> "none",
              fr |-> long_chunks(
                        [fr0 EXCEPT !.th.long_filename_header =
                            set_cksum(set_entry_type(
                                set_size(@, Len(target) + 1), GNULongLink))],
                        target, 4)]))

\* TarHelper::apply_symlink
apply_symlink(th, path, target, metadata) ==
    Bind(apply_path(Frame(th, 7), path), LAMBDA ap :
        IF ap.err # "none" THEN Returned(ap.err, ap.fr)
        ELSE Bind(apply_link_name(ap.fr, target), LAMBDA al :
            IF al.err # "none" THEN Returned(al.err, al.fr)
            ELSE Returned("none",
                    final_header(al.fr,
                        set_cksum(set_entry_type(
                            set_size(set_metadata(al.fr.th.header, metadata, Mode0644), 0),
                            Symlink)),
                        7))))

(***************************************************************************)
(* Inputs: content ids, paths, metadata and the entries a walk can report. *)
(***************************************************************************)
RootCids == {0}
PendingCids == {1, 2}

\* Cid::to_string, on the ids of the model: "Qm" and a digit
CidString(c) == <<81, 109, 48 + c>>

\* a path of len bytes under the root name: the root name itself, or the
\* root name, a slash and one more component
PlainPath(root_name, len) ==
    [i \in 1..len |->
        IF i <= Len(root_name) THEN root_name[i]
        ELSE IF i = Len(root_name) + 1 THEN Slash
        ELSE 97 + (i % 7)]

\* the root name with a `..` component after it, padded to len bytes by a
\* further component when len allows
DotDotPath(root_name, len) ==
    [i \in 1..len |->
        IF i <= Len(root_name) THEN root_name[i]
        ELSE IF i = Len(root_name) + 1 THEN Slash
        ELSE IF i <= Len(root_name) + 3 THEN Dot
        ELSE IF i = Len(root_name) + 4 THEN Slash
        ELSE 97 + (i % 7)]

\* path lengths: the bare root name, a path that fills the name field, one
\* byte more, and a path that with its NUL fills a whole block
ShortLen == Len(CidString(0))
LongLen == NameLen + 1
PathLens == {ShortLen, NameLen, LongLen, BlockSize - 1}

PlainPaths(root_name) == {PlainPath(root_name, l) : l \in PathLens}
BadPaths(root_name) == {DotDotPath(root_name, 6), DotDotPath(root_name, LongLen)}

\* symlink targets: valid text of several lengths, and the targets the
\* stream or the header refuses
TextTarget(len) == [i \in 1..len |-> 110 + (i % 5)]
TargetLens == {5, LinkNameLen, LinkNameLen + 1, BlockSize - 1}
TextTargets == {TextTarget(l) : l \in TargetLens}
NonUtf8Target == <<97, 255>>
NulTarget == <<97, 0, 98>>
EmptyTarget == <<>>

\* FileMetadata: an optional mode and optional mtime seconds
NoMetadata == [mode |-> None, mtime |-> None]
FullMetadata == [mode |-> Some(33261), mtime |-> Some(1234567)]
NegMetadata == [mode |-> Some(4095), mtime |-> Some(-5)]
Metas == {NoMetadata, FullMetadata, NegMetadata}

\* the segment lengths of a file, in order; the file's size is their sum
FilePlans ==
    { <<0>>, <<4>>, <<512>>, <<16384>>, <<16385>>, <<0, 4>>, <<4, 508>>,
      <<512, 0>>, <<16385, 511>>, <<4, 0, 4>> }
DefaultPlan == <<4>>

SumSeq(s) == SumBytes(s)

\* the entries of the model: all combinations in which at most one of
\* path, metadata and content departs from the plainest choice (for
\* symlinks, path and target vary together)
FileEntries(root_name) ==
    LET short == PlainPath(root_name, ShortLen)
    IN { [tag |-> "File", path |-> p, metadata |-> Some(NoMetadata), plan |-> DefaultPlan] :
            p \in PlainPaths(root_name) \cup BadPaths(root_name) }
       \cup { [tag |-> "File", path |-> short, metadata |-> Some(m), plan |-> DefaultPlan] :
                m \in Metas }
       \cup { [tag |-> "File", path |-> short, metadata |-> Some(NoMetadata), plan |-> pl] :
                pl \in FilePlans }
       \cup { [tag |-> "File", path |-> PlainPath(root_name, LongLen),
               metadata |-> Some(FullMetadata), plan |-> <<4, 508>>] }

DirectoryEntries(root_name) ==
    LET short == PlainPath(root_name, ShortLen)
    IN { [tag |-> "Directory", path |-> p, metadata |-> Some(NoMetadata)] :
            p \in PlainPaths(root_name) \cup BadPaths(root_name) }
       \cup { [tag |-> "Directory", path |-> short, metadata |-> Some(m)] : m \in Metas }

\* a directory met again (a further shard of it): no metadata
DirectoryRevisits(root_name) ==
    { [tag |-> "Directory", path |-> PlainPath(root_name, ShortLen), metadata |-> None] }

SymlinkEntries(root_name) ==
    LET short == PlainPath(root_name, ShortLen)
        long == PlainPath(root_name, LongLen)
    IN { [tag |-> "Symlink", path |-> p, metadata |-> Some(NoMetadata), target |-> t] :
            p \in {short, long}, t \in TextTargets \cup {NulTarget} }
       \cup { [tag |-> "Symlink", path |-> p, metadata |-> Some(NoMetadata),
               target |-> TextTarget(5)] :
                p \in PlainPaths(root_name) \cup BadPaths(root_name) }
       \cup { [tag |-> "Symlink", path |-> short, metadata |-> Some(m),
               target |-> TextTarget(5)] : m \in Metas }
       \cup { [tag |-> "Symlink", path |-> short, metadata |-> Some(NoMetadata),
               target |-> t] : t \in {NonUtf8Target, EmptyTarget} }

(***************************************************************************)
(* State.                                                                  *)
(***************************************************************************)
VARIABLES
    req,            \* the request served: operation, arguments, reply
    pc,             \* where the `walk` generator stands
    root,           \* Option<Cid>: Some until the first block was walked
    maybe_walker,   \* Option<Walker>
    tar_helper,     \* the TarHelper of the stream
    event,          \* the ContinuedWalk being turned into chunks
    ret,            \* the slots returned by apply_* not yet iterated
    n,              \* bytes of the current segment already buffered
    polled,         \* the consumer is inside poll_next
    dropped,        \* the consumer has dropped the stream
    out,            \* what the consumer received
    net             \* the block fetches issued

vars == <<req, pc, root, maybe_walker, tar_helper, event, ret, n, polled,
          dropped, out, net>>

NoEvent == [tag |-> "None"]
NoRequest ==
    [op |-> "none", offset |-> None, length |-> None, codec |-> "none",
     reply |-> "none", cat_called |-> FALSE]

Init ==
    /\ req = NoRequest
    /\ pc = "idle"
    /\ root = None
    /\ maybe_walker = None
    /\ tar_helper = with_buffer_sizes(BufSize)
    /\ event = NoEvent
    /\ ret = <<>>
    /\ n = 0
    /\ polled = FALSE
    /\ dropped = FALSE
    /\ out = [entry |-> <<>>, ev_chunks |-> 0, bytes |-> 0, last |-> None,
              result |-> "none"]
    /\ net = [fetched |-> 0, last |-> None]

streamVars == <<root, maybe_walker, tar_helper, event, ret, n, polled,
                dropped, out, net>>

Codecs == {"DagProtobuf", "Raw"}
RangeArgs == {None, Some(0), Some(7)}

(***************************************************************************)
(* cat_inner (root_files.rs:39-71).                                        *)
(***************************************************************************)
\* the reply of cat_inner for a request: path_ok is whether the argument
\* parses as an IpfsPath, resolved the codec walk_path resolves it to (None
\* when resolution fails), cat_result what ipfs::unixfs::cat returns
cat_inner(path_ok, offset, length, resolved, cat_result) ==
    IF ~path_ok THEN [reply |-> "invalid path", cat_called |-> FALSE]
    ELSE IF offset # None /\ length = None
    THEN [reply |-> "panic", cat_called |-> FALSE]
    ELSE IF resolved = None
    THEN [reply |-> "resolve failed", cat_called |-> FALSE]
    ELSE IF resolved[1] # "DagProtobuf"
    THEN [reply |-> "unknown node type", cat_called |-> FALSE]
    ELSE [reply |-> cat_result, cat_called |-> TRUE]

CatResults == {"stream", "this dag node is a directory", "cat failed"}

CatInner ==
    /\ pc = "idle"
    /\ \E path_ok \in BOOLEAN, offset \in RangeArgs, length \in RangeArgs,
          resolved \in {None} \cup {Some(c) : c \in Codecs},
          cat_result \in CatResults :
          LET r == cat_inner(path_ok, offset, length, resolved, cat_result)
          IN req' = [op |-> "cat", offset |-> offset, length |-> length,
                     codec |-> IF path_ok /\ resolved # None THEN resolved[1]
                               ELSE "none",
                     reply |-> r.reply, cat_called |-> r.cat_called]
    /\ pc' = "replied"
    /\ UNCHANGED streamVars

(***************************************************************************)
(* get_inner (root_files.rs:88-102).                                       *)
(***************************************************************************)
get_inner(path_ok, resolved) ==
    IF ~path_ok THEN "invalid path"
    ELSE IF resolved = None THEN "resolve failed"
    ELSE IF resolved[1] # "DagProtobuf" THEN "unknown node type"
    ELSE "stream"

GetInner ==
    /\ pc = "idle"
    /\ \E path_ok \in BOOLEAN, cid \in RootCids,
          resolved \in {None} \cup {Some(c) : c \in Codecs} :
          LET reply == get_inner(path_ok, resolved)
          IN /\ req' = [NoRequest EXCEPT
                          !.op = "get", !.reply = reply,
                          !.codec = IF path_ok /\ resolved # None THEN resolved[1]
                                    ELSE "none"]
             /\ pc' = IF reply = "stream" THEN "loop" ELSE "replied"
             /\ root' = IF reply = "stream" THEN Some(cid) ELSE None
    /\ UNCHANGED <<maybe_walker, tar_helper, event, ret, n, polled, dropped,
                   out, net>>

(***************************************************************************)
(* The walk abstraction (ipfs::unixfs Walker), as the stream sees it: each *)
(* block yields one ContinuedWalk and the walker to go on with, if any.    *)
(* A file is reported segment by segment, first to last, and nothing else  *)
(* is reported in between.                                                 *)
(***************************************************************************)
Walker(name, pending, file) == [name |-> name, pending |-> pending, file |-> file]

\* one segment of a file: `left` are the lengths of this and the later
\* segments, `off` the file offset this one starts at
FileSegment(name, path, metadata, total_size, off, left, first) ==
    [ tag |-> "File", name |-> name, path |-> path, metadata |-> metadata,
      total_size |-> total_size,
      seg |-> [off |-> off, len |-> Head(left), first |-> first,
               last |-> Tail(left) = <<>>],
      rest |-> IF Tail(left) = <<>> THEN None
               ELSE Some([path |-> path, total_size |-> total_size,
                          off |-> off + Head(left), left |-> Tail(left)]) ]

WalkerName(walker, root_name) == IF walker = None THEN root_name ELSE walker[1].name

\* Walker::start(&data, &root_name, ..) and walker.continue_walk(&data, ..)
\* when they succeed: the file events the block may hold
FileResults(walker, root_name, fetched) ==
    LET name == WalkerName(walker, root_name)
        file == IF walker = None THEN None ELSE walker[1].file
    IN IF file # None
       THEN { FileSegment(name, file[1].path, None, file[1].total_size,
                          file[1].off, file[1].left, FALSE) }
       ELSE { FileSegment(name, e.path, e.metadata, SumSeq(e.plan), 0, e.plan, TRUE) :
                e \in {x \in FileEntries(name) :
                          Len(x.plan) - 1 <= MaxEvents - fetched} }

\* the directory events the block may hold
DirectoryResults(walker, root_name) ==
    LET name == WalkerName(walker, root_name)
    IN IF walker # None /\ walker[1].file # None THEN {}
       ELSE { [tag |-> e.tag, name |-> name, path |-> e.path,
               metadata |-> e.metadata, rest |-> None] :
                 e \in DirectoryEntries(name)
                       \cup (IF walker = None THEN {} ELSE DirectoryRevisits(name)) }

\* the symlink events the block may hold
SymlinkResults(walker, root_name) ==
    LET name == WalkerName(walker, root_name)
    IN IF walker # None /\ walker[1].file # None THEN {}
       ELSE { [tag |-> e.tag, name |-> name, path |-> e.path,
               metadata |-> e.metadata, target |-> e.target, rest |-> None] :
                 e \in SymlinkEntries(name) }

\* item.into_inner() for event ev: the walker to go on with.  A file with
\* segments left always has one; otherwise the walk may be over
NextWalkers(ev, fetched) ==
    (IF ev.rest = None THEN {None} ELSE {})
    \cup (IF fetched < MaxEvents
          THEN {Some(Walker(ev.name, c, ev.rest)) : c \in PendingCids}
          ELSE {})

(***************************************************************************)
(* The consumer of the stream.                                             *)
(***************************************************************************)
Streaming == pc \in {"loop", "fetching", "slots", "content", "round"}

\* poll_next: the consumer asks for the next item
Poll ==
    /\ Streaming /\ ~polled /\ ~dropped
    /\ polled' = TRUE
    /\ UNCHANGED <<req, pc, root, maybe_walker, tar_helper, event, ret, n,
                   dropped, out, net>>

\* the consumer drops the stream between two polls
Drop ==
    /\ Streaming /\ ~polled /\ ~dropped
    /\ dropped' = TRUE
    /\ UNCHANGED <<req, pc, root, maybe_walker, tar_helper, event, ret, n,
                   polled, out, net>>

(***************************************************************************)
(* walk (root_files.rs:104-230): the body of try_stream!, which runs only  *)
(* inside poll_next.                                                       *)
(***************************************************************************)
Running(at) == pc = at /\ polled /\ ~dropped

\* a yield that hands over the chunk and lets the body run on
Yield_and_run_on(c) ==
    /\ out' = [out EXCEPT !.entry = Append(@, c),
                          !.ev_chunks = @ + 1,
                          !.bytes = @ + ChunkLen(c),
                          !.last = Some(c)]
    /\ polled' = polled

\* `yield c`: the chunk is the item poll_next returns
Yield(c) ==
    /\ out' = [out EXCEPT !.entry = Append(@, c),
                          !.ev_chunks = @ + 1,
                          !.bytes = @ + ChunkLen(c),
                          !.last = Some(c)]
    /\ polled' = FALSE

\* an error that is reported as an item while the loop goes on
Fail_and_continue(err) ==
    /\ pc' = "loop"
    /\ out' = [out EXCEPT !.result = err]
    /\ polled' = FALSE
    /\ event' = NoEvent
    /\ ret' = <<>>

\* `?` on an error, or a panic: the stream ends with it
Fail(err) ==
    /\ pc' = IF err = "panic" THEN "panicked" ELSE "failed"
    /\ out' = [out EXCEPT !.result = err]
    /\ polled' = FALSE
    /\ event' = NoEvent
    /\ ret' = <<>>

\* a next reference that is the requested root again on every round
NextRef_root_again ==
    IF root # None THEN root
    ELSE IF maybe_walker # None THEN Some(CHOOSE c \in RootCids : TRUE)
    ELSE None

\* lines 127-134: the next reference is the root on the first round, else
\* the walker's pending link
NextRef == IF root # None THEN root
           ELSE IF maybe_walker # None THEN Some(maybe_walker[1].pending)
           ELSE None

\* a return that first appends the two zero blocks that end a tar archive
StreamReturn_with_trailer ==
    /\ Running("loop")
    /\ NextRef = None
    /\ pc' = "done"
    /\ out' = [out EXCEPT !.result = "end",
                          !.bytes = @ + 2 * BlockSize,
                          !.last = Some(<<ZeroesPart(2 * BlockSize)>>)]
    /\ polled' = FALSE
    /\ UNCHANGED <<req, root, maybe_walker, tar_helper, event, ret, n, dropped, net>>

\* line 133: no reference, the stream ends
StreamReturn ==
    /\ Running("loop")
    /\ NextRef = None
    /\ pc' = "done"
    /\ out' = [out EXCEPT !.result = "end"]
    /\ polled' = FALSE
    /\ UNCHANGED <<req, root, maybe_walker, tar_helper, event, ret, n, dropped, net>>

\* line 136: ipfs.get_block(next) is called
IssueFetch ==
    /\ Running("loop")
    /\ NextRef # None
    /\ pc' = "fetching"
    /\ net' = [fetched |-> net.fetched + 1, last |-> NextRef]
    /\ UNCHANGED <<req, root, maybe_walker, tar_helper, event, ret, n, polled,
                   dropped, out>>

\* line 136: the block is not there yet, poll_next returns Pending
FetchPending ==
    /\ Running("fetching")
    /\ polled' = FALSE
    /\ UNCHANGED <<req, pc, root, maybe_walker, tar_helper, event, ret, n,
                   dropped, out, net>>

\* line 136: get_block fails
GetBlockErr ==
    /\ Running("fetching")
    /\ Fail("Loading")
    /\ UNCHANGED <<req, root, maybe_walker, tar_helper, n, dropped, net>>

\* lines 138-146: Walker::start / continue_walk fails on the block
WalkErr ==
    /\ Running("fetching")
    /\ Fail("Walk")
    /\ UNCHANGED <<req, root, maybe_walker, tar_helper, n, dropped, net>>

\* line 142: the root name is the string form of the id just fetched
RootName == CidString(net.last[1])


\* after apply_* returned r for event ev: iterate its slots, or end the
\* stream with its error
Applied(ev, r) ==
    /\ tar_helper' = r.th
    /\ IF r.err = "none"
       THEN /\ pc' = "slots"
            /\ event' = ev
            /\ ret' = r.ret
            /\ out' = [out EXCEPT !.ev_chunks = 0]
            /\ UNCHANGED polled
       ELSE Fail(r.err)

\* a file segment that makes the header whether it is the first or not
VisitFile_every_segment ==
    /\ Running("fetching")
    /\ \E ev \in FileResults(maybe_walker, RootName, net.fetched) :
          \E r \in { apply_file(tar_helper, ev.path,
                        IF ev.metadata # None THEN ev.metadata[1] ELSE NoMetadata,
                        ev.total_size) } :
             Applied(ev, r)
    /\ root' = None
    /\ n' = 0
    /\ UNCHANGED <<req, maybe_walker, dropped, net>>

\* lines 152-169: a file segment; its first segment makes the header
VisitFile ==
    /\ Running("fetching")
    /\ \E ev \in FileResults(maybe_walker, RootName, net.fetched) :
          \E r \in { IF ev.seg.first
                     THEN apply_file(tar_helper, ev.path, ev.metadata[1], ev.total_size)
                     ELSE [err |-> "none", ret |-> <<>>, th |-> tar_helper] } :
             Applied(ev, r)
    /\ root' = None
    /\ n' = 0
    /\ UNCHANGED <<req, maybe_walker, dropped, net>>

\* a directory event that makes a header with or without metadata
VisitDirectory_any_metadata ==
    /\ Running("fetching")
    /\ \E ev \in DirectoryResults(maybe_walker, RootName) :
          \E r \in { apply_directory(tar_helper, ev.path,
                        IF ev.metadata # None THEN ev.metadata[1] ELSE NoMetadata) } :
             Applied(ev, r)
    /\ root' = None
    /\ UNCHANGED <<req, maybe_walker, n, dropped, net>>

\* lines 193-207: a directory; only one with metadata makes a header
VisitDirectory ==
    /\ Running("fetching")
    /\ \E ev \in DirectoryResults(maybe_walker, RootName) :
          \E r \in { IF ev.metadata # None
                     THEN apply_directory(tar_helper, ev.path, ev.metadata[1])
                     ELSE [err |-> "none", ret |-> <<>>, th |-> tar_helper] } :
             Applied(ev, r)
    /\ root' = None
    /\ UNCHANGED <<req, maybe_walker, n, dropped, net>>

\* a symlink event whose target is handed on without the text test
VisitSymlink_any_bytes ==
    /\ Running("fetching")
    /\ \E ev \in SymlinkResults(maybe_walker, RootName) :
          \E r \in { apply_symlink(tar_helper, ev.path, ev.target, ev.metadata[1]) } :
             Applied(ev, r)
    /\ root' = None
    /\ UNCHANGED <<req, maybe_walker, n, dropped, net>>

\* lines 211-221: a symlink; its target must be text
VisitSymlink ==
    /\ Running("fetching")
    /\ \E ev \in SymlinkResults(maybe_walker, RootName) :
          \E r \in { IF from_utf8_ok(ev.target)
                     THEN apply_symlink(tar_helper, ev.path, ev.target, ev.metadata[1])
                     ELSE [err |-> "NonUtf8Symlink", ret |-> <<>>, th |-> tar_helper] } :
             Applied(ev, r)
    /\ root' = None
    /\ UNCHANGED <<req, maybe_walker, n, dropped, net>>

\* the slots of ret that hold a chunk
FullSlots == {i \in 1..Len(ret) : ret[i] # None}

\* slots taken from the last to the first
YieldSlot_last_first ==
    /\ Running("slots")
    /\ FullSlots # {}
    /\ LET i == CHOOSE x \in FullSlots : \A y \in FullSlots : x >= y
       IN /\ Yield(ret[i][1])
          /\ ret' = SubSeq(ret, 1, i - 1)
    /\ UNCHANGED <<req, pc, root, maybe_walker, tar_helper, event, n, dropped, net>>

\* lines 164-168, 202-206, 217-221: the next slot that holds a chunk is
\* taken and yielded
YieldSlot ==
    /\ Running("slots")
    /\ FullSlots # {}
    /\ LET i == CHOOSE x \in FullSlots : \A y \in FullSlots : x <= y
       IN /\ Yield(ret[i][1])
          /\ ret' = SubSeq(ret, i + 1, Len(ret))
    /\ UNCHANGED <<req, pc, root, maybe_walker, tar_helper, event, n, dropped, net>>

\* the slots are through: a file goes on with its content (line 175), any
\* other event is over
SlotsDone ==
    /\ Running("slots")
    /\ FullSlots = {}
    /\ ret' = <<>>
    /\ pc' = IF event.tag = "File" THEN "content" ELSE "round"
    /\ UNCHANGED <<req, root, maybe_walker, tar_helper, event, n, polled,
                   dropped, out, net>>

\* lines 179-183: one more piece of the segment is buffered and yielded
YieldContent ==
    /\ Running("content")
    /\ n < event.seg.len
    /\ \E r \in { buffer_file_contents(tar_helper,
                    [off |-> event.seg.off + n, len |-> event.seg.len - n]) } :
          IF r.err = "none"
          THEN /\ Yield(r.ret)
               /\ n' = n + ChunkLen(r.ret)
               /\ tar_helper' = r.th
               /\ UNCHANGED <<pc, event, ret>>
          ELSE /\ Fail(r.err)
               /\ UNCHANGED <<n, tar_helper>>
    /\ UNCHANGED <<req, root, maybe_walker, dropped, net>>

\* lines 185-189: the pad that follows the last segment, if there is one
PadOf(ev) == IF ev.seg.last THEN pad(ev.total_size) ELSE None

YieldPad ==
    /\ Running("content")
    /\ n >= event.seg.len
    /\ PadOf(event) # None
    /\ Yield(PadOf(event)[1])
    /\ pc' = "round"
    /\ UNCHANGED <<req, root, maybe_walker, tar_helper, event, ret, n, dropped, net>>

\* lines 185-189: no pad to yield
SegmentDone ==
    /\ Running("content")
    /\ n >= event.seg.len
    /\ PadOf(event) = None
    /\ pc' = "round"
    /\ UNCHANGED <<req, root, maybe_walker, tar_helper, event, ret, n, polled,
                   dropped, out, net>>

\* the event closes its entry, unless it is a file segment with more to come
ClosesEntry(ev) == ev.tag # "File" \/ ev.seg.last

\* lines 191, 209, 223, 227: maybe_walker = item.into_inner(), and the loop
\* starts over
EndRound ==
    /\ Running("round")
    /\ \E nw \in NextWalkers(event, net.fetched) : maybe_walker' = nw
    /\ pc' = "loop"
    /\ event' = NoEvent
    /\ n' = 0
    /\ out' = [out EXCEPT !.entry = IF ClosesEntry(event) THEN <<>> ELSE @,
                          !.ev_chunks = 0]
    /\ UNCHANGED <<req, root, tar_helper, ret, polled, dropped, net>>

Next ==
    \/ CatInner
    \/ GetInner
    \/ Poll
    \/ Drop
    \/ StreamReturn
    \/ IssueFetch
    \/ FetchPending
    \/ GetBlockErr
    \/ WalkErr
    \/ VisitFile
    \/ VisitDirectory
    \/ VisitSymlink
    \/ YieldSlot
    \/ SlotsDone
    \/ YieldContent
    \/ YieldPad
    \/ SegmentDone
    \/ EndRound

Spec == Init /\ [][Next]_vars

(***************************************************************************)
(* Reading the output.                                                     *)
(***************************************************************************)
IsHeader(c) == Len(c) = 1 /\ c[1].kind = "header"
IsBytes(c) == Len(c) = 1 /\ c[1].kind = "bytes"
IsContent(c) == Len(c) = 1 /\ c[1].kind = "content"
IsZeroes(c) == Len(c) = 1 /\ c[1].kind = "zeroes"

\* the event opens an entry: it is turned into header chunks
OpensEntry(ev) ==
    \/ ev.tag = "File" /\ ev.seg.first
    \/ ev.tag = "Directory" /\ ev.metadata # None
    \/ ev.tag = "Symlink"

\* all header chunks of the entry just opened have been yielded
HeadersOut == pc = "slots" /\ FullSlots = {} /\ OpensEntry(event)

\* the chunks of entry e after its last header
AfterHeaders(e) ==
    LET hs == {i \in 1..Len(e) : IsHeader(e[i])}
    IN IF hs = {} THEN e
       ELSE SubSeq(e, (CHOOSE i \in hs : \A j \in hs : j <= i) + 1, Len(e))

\* the content chunks cs carry the file's bytes from offset 0 on, in order
\* and without gap or overlap
InOrderFromZero(cs) ==
    \A i \in 1..Len(cs) :
        cs[i][1].off = IF i = 1 THEN 0 ELSE cs[i - 1][1].off + cs[i - 1][1].len

\* the number of content bytes in cs
Covered(cs) == IF cs = <<>> THEN 0 ELSE cs[Len(cs)][1].off + cs[Len(cs)][1].len

\* the header of the file under way is out
FileHeaderOut ==
    /\ event.tag = "File"
    /\ pc \in {"content", "round"} \/ (pc = "slots" /\ ~event.seg.first)

\* the file under way is complete: its last segment is through
FileComplete == event.tag = "File" /\ pc = "round" /\ event.seg.last

(***************************************************************************)
(* C1: for a file of size S, the chunks yielded after its header are the   *)
(* S content bytes in order, whatever the segments, then a pad of          *)
(* (512 - S mod 512) mod 512 zero bytes when S mod 512 # 0 and no pad      *)
(* chunk when S mod 512 = 0; the pad comes only after the last segment.    *)
(***************************************************************************)
C1_ContentThenPad ==
    FileHeaderOut =>
        LET t == AfterHeaders(out.entry)
            cs == SelectSeq(t, IsContent)
            zs == {i \in 1..Len(t) : IsZeroes(t[i])}
            S == event.total_size
        IN /\ \A i \in 1..Len(t) : IsContent(t[i]) \/ IsZeroes(t[i])
           /\ InOrderFromZero(cs)
           /\ Covered(cs) <= S
           /\ zs # {} => /\ FileComplete
                         /\ zs = {Len(t)}
                         /\ t[Len(t)][1].len = (BlockSize - (S % BlockSize)) % BlockSize
                         /\ t[Len(t)][1].len > 0
           /\ FileComplete => /\ Covered(cs) = S
                              /\ (S % BlockSize # 0) = (zs # {})

\* a file of several segments whose size is no multiple of 512 is complete
C1_Witness ==
    /\ FileComplete
    /\ ~event.seg.first
    /\ event.total_size % BlockSize # 0
    /\ SelectSeq(AfterHeaders(out.entry), IsContent) # <<>>

\* the entry type of the header an event of this tag ends with
EntryTypeOf(tag) ==
    IF tag = "File" THEN Regular
    ELSE IF tag = "Directory" THEN Directory ELSE Symlink

\* chunk c is a marker header of the given type: name "././@LongLink" and
\* the size of the bytes that follow
IsMarker(c, type, size) ==
    /\ IsHeader(c)
    /\ FieldText(c[1].hdr.name) = LongLinkName
    /\ c[1].hdr.typeflag = type
    /\ octal_from(c[1].hdr.size, 0) = size

\* the zero bytes that bring len to the next multiple of 512
PadLen(len) == (BlockSize - (len % BlockSize)) % BlockSize

\* chunks i.. of e are a long sequence for data: the marker of the given
\* type, the data and a NUL, and the pad if one is needed
IsLongSequence(e, i, type, data) ==
    /\ Len(e) >= i + 1
    /\ IsMarker(e[i], type, Len(data) + 1)
    /\ IsBytes(e[i + 1]) /\ e[i + 1][1].data = data \o <<0>>
    /\ PadLen(Len(data) + 1) > 0 =>
          /\ Len(e) >= i + 2
          /\ IsZeroes(e[i + 2]) /\ e[i + 2][1].len = PadLen(Len(data) + 1)

\* the number of chunks of a long sequence for data
LongSequenceLen(data) == IF PadLen(Len(data) + 1) > 0 THEN 3 ELSE 2

\* the headers among the chunks of e that are of the given type
HeadersOfType(e, type) ==
    {i \in 1..Len(e) : IsHeader(e[i]) /\ e[i][1].hdr.typeflag = type}

\* e ends with the one normal header of the event, and its name field is name
EndsWithHeader(e, ev, name) ==
    /\ e # <<>>
    /\ IsHeader(e[Len(e)])
    /\ e[Len(e)][1].hdr.typeflag = EntryTypeOf(ev.tag)
    /\ e[Len(e)][1].hdr.name = name
    /\ HeadersOfType(e, Regular) \cup HeadersOfType(e, Directory)
          \cup HeadersOfType(e, Symlink) = {Len(e)}

C2_WitnessFits == HeadersOut /\ Len(event.path) = NameLen

\* the number of chunks the long-name sequence of a path takes, if any
NameChunks(path) == IF Len(path) > NameLen THEN LongSequenceLen(path) ELSE 0

\* the headers of a symlink are out
SymlinkOut == HeadersOut /\ event.tag = "Symlink"

(***************************************************************************)
(* C3 as stated: every symlink whose target is 100 bytes or longer, a      *)
(* target of exactly 100 bytes included, gets a long-link sequence (marker *)
(* header of type 'K', target and NUL, pad) before its final header, after *)
(* the long-name sequence of its path when there is one.                   *)
(***************************************************************************)
C3_Original ==
    (SymlinkOut /\ Len(event.target) >= LinkNameLen) =>
        /\ IsLongSequence(out.entry, NameChunks(event.path) + 1, GNULongLink,
                          event.target)
        /\ IsHeader(out.entry[Len(out.entry)])
        /\ out.entry[Len(out.entry)][1].hdr.typeflag = Symlink

(***************************************************************************)
(* C3 amended: a symlink whose target is longer than 100 bytes gets the    *)
(* long-link sequence (marker header of type 'K' with size = length + 1,   *)
(* target and NUL, pad when length + 1 is no multiple of 512) right before *)
(* its final header, whether or not its path needed a long-name sequence;  *)
(* when it did, the 'L' sequence comes first, then the 'K' sequence, then  *)
(* the final header and nothing else.  A target of 100 bytes or less gets  *)
(* no long-link sequence: the link name field of the final header holds    *)
(* it.                                                                     *)
(***************************************************************************)
C3_LongLink ==
    SymlinkOut =>
        LET e == out.entry
            a == NameChunks(event.path)
        IN /\ e # <<>>
           /\ IsHeader(e[Len(e)]) /\ e[Len(e)][1].hdr.typeflag = Symlink
           /\ a > 0 => IsLongSequence(e, 1, GNULongName, event.path)
           /\ IF Len(event.target) > LinkNameLen
              THEN /\ IsLongSequence(e, a + 1, GNULongLink, event.target)
                   /\ HeadersOfType(e, GNULongLink) = {a + 1}
                   /\ Len(e) = a + LongSequenceLen(event.target) + 1
              ELSE /\ HeadersOfType(e, GNULongLink) = {}
                   /\ Len(e) = a + 1
                   /\ FieldText(e[Len(e)][1].hdr.linkname) = event.target

\* a symlink with a long path and a long target is out: seven chunks
C3_Witness ==
    /\ SymlinkOut
    /\ Len(event.path) > NameLen
    /\ Len(event.target) > LinkNameLen
    /\ Len(out.entry) = 7

\* a symlink with a short path and a long target is out
C3_WitnessShortPath ==
    /\ SymlinkOut
    /\ Len(event.path) < NameLen
    /\ Len(event.target) > LinkNameLen

\* header h names owner and group 0
OwnedByZero(h) == octal_from(h.uid, 0) = 0 /\ octal_from(h.gid, 0) = 0
                  /\ h.uid = octal_into(h.uid, 0) /\ h.gid = octal_into(h.gid, 0)

\* the checksum field of h is the checksum of h as it stands
ChecksumMatches(h) ==
    /\ octal_from(h.cksum, 0) = calculate_cksum(h)
    /\ h.cksum = octal_into(h.cksum, calculate_cksum(h))

\* the chunk yielded last is a header
HeaderYielded == out.last # None /\ IsHeader(out.last[1])

(***************************************************************************)
(* C4: every header the stream yields, entry header or long-name /         *)
(* long-link marker, after whatever entries came before, has uid 0, gid 0  *)
(* and a checksum field equal to the checksum recomputed over the header   *)
(* as yielded.                                                             *)
(***************************************************************************)
C4_OwnerAndChecksum ==
    /\ HeaderYielded =>
          OwnedByZero(out.last[1][1].hdr) /\ ChecksumMatches(out.last[1][1].hdr)
    /\ \A i \in 1..Len(out.entry) :
          IsHeader(out.entry[i]) =>
             OwnedByZero(out.entry[i][1].hdr) /\ ChecksumMatches(out.entry[i][1].hdr)

\* the header of a file was yielded as part of the second entry, after a
\* long-name marker
C4_Witness ==
    /\ HeaderYielded
    /\ net.fetched = 2
    /\ event.tag = "File" /\ event.seg.first
    /\ out.last[1][1].hdr.typeflag = Regular
    /\ HeadersOfType(out.entry, GNULongName) # {}

\* every header chunk among cs satisfies P
AllHeaders(cs, P(_)) == \A i \in 1..Len(cs) : IsHeader(cs[i]) => P(cs[i][1].hdr)

\* the header holds modification time 0
ZeroMtime(h) == octal_from(h.mtime, 0) = 0

(***************************************************************************)
(* C5 as stated: the modification time field of every emitted header is    *)
(* 0, whatever the metadata of the entry says.                             *)
(***************************************************************************)
C5_Original ==
    /\ HeaderYielded => ZeroMtime(out.last[1][1].hdr)
    /\ AllHeaders(out.entry, ZeroMtime)

\* the modification time set_metadata takes from the metadata
MtimeOf(metadata) ==
    IF metadata.mtime # None /\ metadata.mtime[1] >= 0 THEN metadata.mtime[1] ELSE 0

(***************************************************************************)
(* C5 amended: the long-name and long-link marker headers always carry     *)
(* modification time 0; the header of an entry carries the seconds of the  *)
(* entry's metadata when the metadata has a modification time that is not  *)
(* negative, and 0 when it has none or a negative one.                     *)
(***************************************************************************)
C5_Mtime ==
    /\ AllHeaders(out.entry,
          LAMBDA h : h.typeflag \in {GNULongName, GNULongLink} => ZeroMtime(h))
    /\ HeadersOut =>
          octal_from(out.entry[Len(out.entry)][1].hdr.mtime, 0)
             = MtimeOf(event.metadata[1])

\* the header of an entry whose metadata has a modification time above 0 is
\* out, and so is the header of one with a negative time
C5_Witness ==
    /\ HeadersOut
    /\ event.metadata[1].mtime # None
    /\ event.metadata[1].mtime[1] > 0
    /\ ~ZeroMtime(out.entry[Len(out.entry)][1].hdr)

C5_WitnessNegative ==
    /\ HeadersOut
    /\ event.metadata[1].mtime # None
    /\ event.metadata[1].mtime[1] < 0

\* the stream has reported a failed block fetch or a failed walk step
FetchOrWalkFailed == out.result \in {"Loading", "Walk"}

(***************************************************************************)
(* C6: when a block fetch or a walk step fails, the error is the item the  *)
(* poll under way returns and the stream ends: the failing step yields no  *)
(* chunk and finds none pending (every event before it is complete), and   *)
(* after it no chunk is yielded, no block is fetched and nothing is        *)
(* retracted.                                                              *)
(***************************************************************************)
C6_ErrorEndsStream ==
    [][ /\ (~FetchOrWalkFailed /\ FetchOrWalkFailed') =>
              /\ pc = "fetching" /\ pc' = "failed"
              /\ polled /\ ~polled'
              /\ event = NoEvent /\ ret = <<>> /\ ret' = <<>>
              /\ out' = [out EXCEPT !.result = out'.result]
              /\ net' = net
        /\ FetchOrWalkFailed =>
              /\ out' = out /\ net' = net
              /\ pc' = "failed" /\ ~polled' ]_vars

\* a walk step failed on the second block, after the chunks of the first
\* event were yielded
C6_Witness ==
    /\ pc = "failed"
    /\ out.result = "Walk"
    /\ net.fetched = 2
    /\ out.bytes > 0

\* the chunks the producer has made and the consumer has not been handed
Held == Cardinality(FullSlots)

\* the slots an apply_* call returns: [Option<Bytes>; 4] and [Option<Bytes>; 7]
FileSlots == 4
SymlinkSlots == 7
SlotsOf(ev) ==
    IF ev.tag \in {"File", "Directory"} THEN FileSlots
    ELSE IF ev.tag = "Symlink" THEN SymlinkSlots ELSE 0

\* a step of a pull-driven producer that holds at most `most` chunks: it
\* fetches, fills and yields only inside a poll of a live consumer, yields
\* one chunk per poll, fetches only when nothing of the event is left
PullDriven(most) ==
    /\ Held <= most
    /\ Held > 0 => pc = "slots"
    /\ net' # net =>
          /\ polled /\ ~dropped
          /\ Held = 0 /\ event = NoEvent
          /\ net'.fetched = net.fetched + 1
    /\ (tar_helper' # tar_helper \/ ret' # ret) => polled /\ ~dropped
    /\ out'.bytes # out.bytes =>
          /\ polled /\ ~dropped /\ ~polled'
          /\ out'.entry = Append(out.entry, out'.last[1])
          /\ out'.bytes = out.bytes + ChunkLen(out'.last[1])
    /\ dropped =>
          /\ dropped'
          /\ net' = net /\ tar_helper' = tar_helper /\ ret' = ret /\ out' = out

(***************************************************************************)
(* C7 as stated: the stream is pull-driven, the producer fetches or fills  *)
(* a buffer only in response to a pull, never holds more than one produced *)
(* chunk the consumer has not accepted, fetches the next block only when   *)
(* every chunk of the event is accepted, and does nothing more once the    *)
(* consumer stops pulling.                                                 *)
(***************************************************************************)
C7_Original == [][PullDriven(1)]_vars

(***************************************************************************)
(* C7 amended: the stream is pull-driven, with one exception to the bound  *)
(* of one chunk: an apply_* call makes all header chunks of its entry at   *)
(* once, so the producer holds up to 4 chunks for a file or directory and  *)
(* up to 7 for a symlink (long-name and long-link sequences included),     *)
(* which it hands over one per pull.  Content chunks are made one per pull *)
(* and never held.  Fetches and buffer fills happen only inside a pull,    *)
(* the next block is fetched only when no chunk of the event is left, and  *)
(* after the consumer drops the stream nothing is fetched, filled or       *)
(* yielded.                                                                *)
(***************************************************************************)
C7_PullDriven == [][PullDriven(SlotsOf(event))]_vars

\* the seven chunks of a symlink with a long path and a long target are
\* held while the consumer has accepted none
C7_Witness == pc = "slots" /\ event.tag = "Symlink" /\ Held = SymlinkSlots

\* the consumer dropped the stream while chunks were still held
C7_WitnessDropped == dropped /\ Held > 1

\* the event is a directory that carries no metadata
BareDirectory(ev) == ev.tag = "Directory" /\ ev.metadata = None

(***************************************************************************)
(* C8: a directory event without metadata makes the stream yield no chunk  *)
(* and no byte and leaves the tar helper (buffers and header templates) as *)
(* it was; the loop then goes on with the next pending reference, or ends  *)
(* when the walk is over.                                                  *)
(***************************************************************************)
C8_BareDirectory ==
    [][ /\ (~BareDirectory(event) /\ BareDirectory(event')) =>
              /\ tar_helper' = tar_helper
              /\ FullSlots' = {}
              /\ out'.bytes = out.bytes /\ out'.entry = out.entry
              /\ out'.last = out.last
        /\ BareDirectory(event) =>
              /\ tar_helper' = tar_helper
              /\ FullSlots' = {}
              /\ out'.bytes = out.bytes /\ out'.last = out.last
              /\ out.ev_chunks = 0
              /\ pc' \in {"slots", "round", "loop"}
              /\ pc' = "loop" =>
                    /\ BareDirectory(event) /\ event' = NoEvent
                    /\ maybe_walker' = None \/ NextRef' = Some(maybe_walker'[1].pending)
      ]_vars

\* a directory event without metadata is through, after an entry of the
\* archive was yielded
C8_Witness ==
    /\ BareDirectory(event)
    /\ pc = "round"
    /\ out.bytes > 0

(***************************************************************************)
(* C9 as stated: for cat and for get, whatever the request parameters (cat *)
(* with an offset and no length included), a root whose codec is not       *)
(* DagProtobuf makes the operation fail with "unknown node type" before a  *)
(* stream is started, a block of the target is read or a byte is emitted.  *)
(***************************************************************************)
C9_Original ==
    req.codec \notin {"none", "DagProtobuf"} =>
        /\ req.reply = "unknown node type"
        /\ ~req.cat_called
        /\ pc = "replied"
        /\ net.fetched = 0 /\ out.bytes = 0

\* the requests of C9 for which the code does answer "unknown node type"
C9_ExceptOffsetOnly ==
    (/\ req.codec \notin {"none", "DagProtobuf"}
     /\ ~(req.op = "cat" /\ req.offset # None /\ req.length = None)) =>
        /\ req.reply = "unknown node type"
        /\ ~req.cat_called
        /\ pc = "replied"
        /\ net.fetched = 0 /\ out.bytes = 0

(***************************************************************************)
(* C10: every entry boundary of the get stream lands on a multiple of 512  *)
(* bytes: once all chunks of a directory event, of a symlink event or of   *)
(* the last segment of a file are yielded, the bytes yielded since the     *)
(* start of the stream are a multiple of 512, with or without long-name    *)
(* and long-link sequences, and so they are whenever the loop is between   *)
(* two entries.                                                            *)
(***************************************************************************)
C10_EntryBoundary ==
    (\/ pc = "round" /\ ClosesEntry(event)
     \/ pc \in {"loop", "fetching", "done"} /\ out.entry = <<>>) =>
        out.bytes % BlockSize = 0

\* the second entry, a symlink with a long path and a long target, is
\* through
C10_Witness ==
    /\ pc = "round"
    /\ event.tag = "Symlink"
    /\ HeadersOfType(out.entry, GNULongName) # {}
    /\ HeadersOfType(out.entry, GNULongLink) # {}
    /\ net.fetched = 2
    /\ out.bytes > 4 * BlockSize

\* the last segment of a file whose size is no multiple of 512 is through
C10_WitnessFile == FileComplete /\ event.total_size % BlockSize # 0 /\ net.fetched = 2

\* the events the block just fetched may hold
EventsNow ==
    FileResults(maybe_walker, RootName, net.fetched)
        \cup DirectoryResults(maybe_walker, RootName)
        \cup SymlinkResults(maybe_walker, RootName)

\* what the tar helper returns for event ev, as the Visit actions call it
ApplyOf(ev) ==
    IF ev.tag = "File"
    THEN apply_file(tar_helper, ev.path, ev.metadata[1], ev.total_size)
    ELSE IF ev.tag = "Directory"
    THEN apply_directory(tar_helper, ev.path, ev.metadata[1])
    ELSE apply_symlink(tar_helper, ev.path, ev.target, ev.metadata[1])

\* the path of ev is refused by set_path although it is shorter than the
\* name field
PathRefusedShort(ev) ==
    /\ OpensEntry(ev)
    /\ Len(ev.path) < NameLen
    /\ ~set_path(tar_helper.header, ev.path).ok

\* the target of symlink ev is refused by set_link_name although it is
\* shorter than the link name field (its path being accepted)
TargetRefusedShort(ev) ==
    /\ ev.tag = "Symlink"
    /\ from_utf8_ok(ev.target)
    /\ Len(ev.path) < NameLen /\ set_path(tar_helper.header, ev.path).ok
    /\ Len(ev.target) < LinkNameLen
    /\ ~set_link_name(tar_helper.header, ev.target).ok

(***************************************************************************)
(* C11 as stated: whenever the path of an entry, or the target of a        *)
(* symlink, is refused by the header setter although it is shorter than    *)
(* 100 bytes, the apply_* call ends with the InvalidFileName error and     *)
(* returns no chunk, for paths and for targets alike; the producer aborts  *)
(* in no other way.                                                        *)
(***************************************************************************)
C11_Original ==
    pc = "fetching" =>
        \A ev \in EventsNow :
            (PathRefusedShort(ev) \/ TargetRefusedShort(ev)) =>
                ApplyOf(ev).err = "InvalidFileName" /\ ApplyOf(ev).ret = <<>>

\* the half of C11 the code does keep: a refused short path ends the call
\* with InvalidFileName and without a chunk
C11_PathsOnly ==
    pc = "fetching" =>
        \A ev \in EventsNow :
            PathRefusedShort(ev) =>
                ApplyOf(ev).err = "InvalidFileName" /\ ApplyOf(ev).ret = <<>>

\* the other half: a refused short target makes apply_symlink panic
C11_TargetsPanic ==
    pc = "fetching" =>
        \A ev \in EventsNow : TargetRefusedShort(ev) => ApplyOf(ev).err = "panic"

\* the stream went down with a panic, and with the InvalidFileName error
C11_ReachedPanic == pc = "panicked" /\ out.result = "panic" /\ out.bytes > 0
C11_ReachedInvalidFileName == pc = "failed" /\ out.result = "InvalidFileName"

\* the stream has reported a symlink target that is no text
NonUtf8Reported == out.result = "NonUtf8Symlink"

(***************************************************************************)
(* C12: a symlink event whose target bytes are not valid UTF-8 ends the    *)
(* stream with the NonUtf8Symlink error: the symlink never becomes the     *)
(* event whose chunks are yielded, the failing step yields nothing, holds  *)
(* nothing and leaves the tar helper alone, and afterwards no entry is     *)
(* processed, no block fetched and no chunk yielded.                       *)
(***************************************************************************)
C12_NonUtf8Symlink ==
    [][ /\ event.tag = "Symlink" => from_utf8_ok(event.target)
        /\ (~NonUtf8Reported /\ NonUtf8Reported') =>
              /\ pc = "fetching" /\ pc' = "failed"
              /\ \E ev \in SymlinkResults(maybe_walker, RootName) :
                    ~from_utf8_ok(ev.target)
              /\ polled /\ ~polled'
              /\ out' = [out EXCEPT !.result = "NonUtf8Symlink"]
              /\ tar_helper' = tar_helper
              /\ ret' = <<>> /\ event' = NoEvent
              /\ net' = net
        /\ NonUtf8Reported =>
              /\ out' = out /\ net' = net /\ tar_helper' = tar_helper
              /\ pc' = "failed" /\ event' = NoEvent /\ ~polled' ]_vars

\* the second event was a symlink with a target that is no text
C12_Witness ==
    /\ pc = "failed"
    /\ NonUtf8Reported
    /\ net.fetched = 2
    /\ out.bytes > 0

\* chunk c is the header, a content chunk or the pad of an entry
ClosingChunk(c) ==
    \/ IsHeader(c) /\ c[1].hdr.typeflag \in {Regular, Directory, Symlink}
    \/ IsContent(c) /\ c[1].len > 0
    \/ IsZeroes(c) /\ c[1].len < BlockSize

(***************************************************************************)
(* C13: the stream completes cleanly exactly when the walk left no         *)
(* continuation (no pending reference): the return is taken from the top   *)
(* of the loop with neither root nor walker, it is the only step possible  *)
(* there, it yields nothing and fetches nothing, so the last chunk of a    *)
(* completed stream is the last entry's header, content or pad (less than  *)
(* 512 zero bytes) and not an end-of-archive block; with a reference       *)
(* pending the stream does not return.                                     *)
(***************************************************************************)
C13_CleanCompletion ==
    [][ /\ (pc # "done" /\ pc' = "done") =>
              /\ pc = "loop" /\ polled /\ ~polled'
              /\ root = None /\ maybe_walker = None
              /\ out' = [out EXCEPT !.result = "end"]
              /\ out.last # None /\ ClosingChunk(out.last[1])
              /\ out.bytes % BlockSize = 0
              /\ net' = net /\ tar_helper' = tar_helper
        /\ (pc = "loop" /\ polled /\ ~dropped /\ NextRef = None) => pc' = "done"
        /\ (pc = "loop" /\ NextRef # None) => pc' # "done"
        /\ out.result = "end" =>
              pc = "done" /\ pc' = "done" /\ out' = out /\ net' = net ]_vars

\* the stream completed after the pad of a file that was the second entry
C13_Witness ==
    /\ pc = "done"
    /\ out.result = "end"
    /\ net.fetched = 2
    /\ IsZeroes(out.last[1])

\* the content chunks yielded so far for the segment under way: those of
\* the entry that start at or after the segment's offset
SegmentChunks ==
    SelectSeq(AfterHeaders(out.entry),
              LAMBDA c : IsContent(c) /\ c[1].off >= event.seg.off)

\* ceil(a / b)
CeilDiv(a, b) == (a + b - 1) \div b

(***************************************************************************)
(* C14: for a file segment of L bytes and the buffer size B = 16 KiB, the  *)
(* loop calls buffer_file_contents ceil(L / B) times and never with an     *)
(* empty slice (no call at all for a segment of length 0, so the assertion *)
(* never fails); call i yields one chunk of min(B, L - (i - 1) * B) bytes, *)
(* so every content chunk is non-empty and at most B bytes, all but the    *)
(* last are exactly B bytes, and when the loop ends the lengths sum to L.  *)
(***************************************************************************)
C14_Chunking ==
    [][ /\ FileHeaderOut =>
              LET cs == SegmentChunks
                  L == event.seg.len
              IN /\ \A i \in 1..Len(cs) :
                       /\ cs[i][1].off = event.seg.off + (i - 1) * BufSize
                       /\ cs[i][1].len = Min(BufSize, L - (i - 1) * BufSize)
                       /\ cs[i][1].len > 0 /\ cs[i][1].len <= BufSize
                       /\ i < Len(cs) => cs[i][1].len = BufSize
                 /\ Len(cs) <= CeilDiv(L, BufSize)
                 /\ pc = "content" => n = Min(L, Len(cs) * BufSize)
                 /\ pc = "round" => Len(cs) = CeilDiv(L, BufSize)
                 /\ pc = "round" /\ cs # <<>> =>
                       cs[Len(cs)][1].off + cs[Len(cs)][1].len = event.seg.off + L
        /\ pc = "content" =>
              /\ pc' \in {"content", "round"}
              /\ out'.result = out.result
              /\ (pc' = "content" /\ (n' # n \/ out' # out)) =>
                    /\ n < event.seg.len
                    /\ out'.last # None /\ IsContent(out'.last[1])
                    /\ n' = n + out'.last[1][1].len
                    /\ out'.ev_chunks = out.ev_chunks + 1 ]_vars

\* a segment of B + 1 bytes went out as a chunk of B bytes and one of 1 byte
C14_Witness ==
    /\ event.tag = "File" /\ pc = "round"
    /\ event.seg.len = BufSize + 1
    /\ Len(SegmentChunks) = 2

\* a first segment of length 0 went through without a content chunk
C14_WitnessEmpty ==
    /\ event.tag = "File" /\ pc = "round"
    /\ event.seg.first /\ event.seg.len = 0 /\ ~event.seg.last

\* a step that calls get_block, and a step that takes an event from the walk
Fetches == net' # net
Consumes == event' # event /\ event'.tag # "None"

(***************************************************************************)
(* C15: each round of the loop fetches exactly one block and consumes      *)
(* exactly one visitation event.  The first fetch is the requested root,   *)
(* and the walk is started on it with the string form of the root id as    *)
(* the top-level name; the root is never fetched again.  Every later fetch *)
(* is the reference the walker reports as pending, and the walk goes on    *)
(* from that walker.  With neither root nor walker nothing is fetched.     *)
(***************************************************************************)
C15_FetchOrder ==
    [][ /\ Fetches =>
              /\ pc = "loop" /\ pc' = "fetching" /\ event = NoEvent
              /\ net'.fetched = net.fetched + 1
              /\ IF net.fetched = 0
                 THEN /\ root # None /\ maybe_walker = None
                      /\ net'.last = root
                 ELSE /\ root = None /\ maybe_walker # None
                      /\ net'.last = Some(maybe_walker[1].pending)
        /\ (pc # "fetching" /\ pc' = "fetching") => Fetches
        /\ (pc = "fetching" /\ pc' # "fetching") =>
              \/ pc' = "slots" /\ Consumes
              \/ pc' \in {"failed", "panicked"} /\ event' = NoEvent
        /\ Consumes =>
              /\ pc = "fetching" /\ event = NoEvent /\ ~Fetches
              /\ root' = None
              /\ IF maybe_walker = None
                 THEN /\ net.fetched = 1
                      /\ event'.name = CidString(root[1])
                      /\ SubSeq(event'.path, 1, Len(event'.name)) = event'.name
                 ELSE event'.name = maybe_walker[1].name
        /\ (pc = "round" /\ pc' = "loop" /\ maybe_walker' # None) =>
              /\ maybe_walker'[1].name = event.name
              /\ maybe_walker'[1].pending \in PendingCids
        /\ (root = None /\ maybe_walker = None) => ~Fetches ]_vars

\* the second fetch is under way, for the reference the walker held pending
C15_Witness ==
    /\ pc = "fetching"
    /\ net.fetched = 2
    /\ root = None
    /\ maybe_walker # None /\ net.last = Some(maybe_walker[1].pending)

(***************************************************************************)
(* C16: a file gets exactly one entry header, however many segments it     *)
(* arrives in: the header (after its long-name sequence, if any) is made   *)
(* on the segment flagged first and comes before every content chunk of    *)
(* the file; a segment that is not first makes content and the final pad   *)
(* only, no header chunk and no call of the tar helper's apply_file.       *)
(***************************************************************************)
C16_OneHeaderPerFile ==
    [][ /\ event.tag = "File" =>
              LET e == out.entry
                  hs == HeadersOfType(e, Regular)
              IN /\ Cardinality(hs) <= 1
                 /\ FileHeaderOut => Cardinality(hs) = 1
                 /\ HeadersOfType(e, GNULongName) \subseteq {1}
                 /\ \A i \in 1..Len(e) :
                       /\ IsContent(e[i]) => \E h \in hs : h < i
                       /\ IsHeader(e[i]) /\ i \notin hs =>
                             /\ e[i][1].hdr.typeflag = GNULongName
                             /\ \A h \in hs : i < h
                 /\ ~event.seg.first =>
                       /\ FullSlots = {}
                       /\ \A h \in hs : h <= Len(e) - out.ev_chunks
        /\ (Consumes /\ event'.tag = "File" /\ ~event'.seg.first) =>
              /\ tar_helper' = tar_helper
              /\ FullSlots' = {}
              /\ out'.entry = out.entry
              /\ Cardinality(HeadersOfType(out.entry, Regular)) = 1 ]_vars

\* the second segment of a file with a long name is through: one marker,
\* one header, content of both segments
C16_Witness ==
    /\ FileComplete
    /\ ~event.seg.first
    /\ HeadersOfType(out.entry, GNULongName) = {1}
    /\ Cardinality(HeadersOfType(out.entry, Regular)) = 1
    /\ Len(SelectSeq(out.entry, IsContent)) = 2

\* the default mode of an entry of this tag
DefaultModeOf(tag) == IF tag = "Directory" THEN Mode0755 ELSE Mode0644

\* the mode set_metadata gives an entry: the low 12 bits of the metadata's
\* mode, or the default
ModeOf(tag, metadata) ==
    IF metadata.mode # None THEN metadata.mode[1] % ModeMask ELSE DefaultModeOf(tag)

\* the size an entry's header announces
SizeOf(ev) == IF ev.tag = "File" THEN ev.total_size ELSE 0

(***************************************************************************)
(* C17: the final header of an entry carries that entry's fields: size =   *)
(* total_size and kind Regular for a file, size 0 and kind Directory for a *)
(* directory, size 0 and kind Symlink for a symlink; its mode is the       *)
(* metadata mode masked to the low 12 bits when present, else 0644 for a   *)
(* file or symlink and 0755 for a directory.  This holds after any earlier *)
(* entry, so no size, kind or mode of the previous entry shows through.    *)
(***************************************************************************)
C17_HeaderFields ==
    HeadersOut =>
        LET h == out.entry[Len(out.entry)][1].hdr
        IN /\ IsHeader(out.entry[Len(out.entry)])
           /\ h.typeflag = EntryTypeOf(event.tag)
           /\ octal_from(h.size, 0) = SizeOf(event)
           /\ h.size = octal_into(h.size, SizeOf(event))
           /\ octal_from(h.mode, 0) = ModeOf(event.tag, event.metadata[1])
           /\ h.mode = octal_into(h.mode, ModeOf(event.tag, event.metadata[1]))

\* the header of a directory without a mode of its own is out, as second
\* entry after a file of more than 16 KiB
C17_Witness ==
    /\ HeadersOut
    /\ event.tag = "Directory"
    /\ event.metadata[1].mode = None
    /\ net.fetched = 2
    /\ out.bytes > BufSize

\* the header of an entry whose metadata has a mode above 12 bits is out
C17_WitnessMasked ==
    /\ HeadersOut
    /\ event.metadata[1].mode # None
    /\ event.metadata[1].mode[1] >= ModeMask

\* the chunks in the slots r, in slot order
SlotChunks(r) ==
    LET full == SelectSeq(r, LAMBDA x : x # None)
    IN [i \in 1..Len(full) |-> full[i][1]]

\* a step that yields a chunk
Yields == out'.bytes # out.bytes \/ out'.ev_chunks = out.ev_chunks + 1

(***************************************************************************)
(* C18: the chunk sequence keeps the order at both levels.  Within an      *)
(* event the slots that hold a chunk are yielded in increasing slot order, *)
(* each as one chunk, none merged, skipped or repeated; the content chunks *)
(* of a file follow only when its slots are through, and its pad is the    *)
(* last chunk of its last segment.  Across events, the next event is taken *)
(* (and the next block fetched) only when every chunk of the current one   *)
(* has been yielded.                                                       *)
(***************************************************************************)
C18_ChunkOrder ==
    [][ /\ Yields =>
              /\ out'.entry = Append(out.entry, out'.last[1])
              /\ event' = event /\ event.tag # "None"
              /\ pc \in {"slots", "content"}
        /\ (Yields /\ pc = "slots") =>
              /\ SlotChunks(ret) = <<out'.last[1]>> \o SlotChunks(ret')
              /\ pc' = "slots"
        /\ (Yields /\ pc = "content") =>
              /\ FullSlots = {} /\ FullSlots' = {}
              /\ IF n < event.seg.len
                 THEN IsContent(out'.last[1]) /\ pc' = "content"
                 ELSE /\ IsZeroes(out'.last[1]) /\ pc' = "round"
                      /\ event.seg.last
        /\ (pc = "slots" /\ ~Yields) => SlotChunks(ret') = SlotChunks(ret)
        /\ (pc = "slots" /\ pc' # "slots") =>
              /\ FullSlots = {}
              /\ pc' = IF event.tag = "File" THEN "content" ELSE "round"
        /\ (Consumes \/ Fetches) => FullSlots = {} /\ event = NoEvent
        /\ (event # NoEvent /\ event' = NoEvent /\ pc' = "loop") =>
              /\ pc = "round" /\ FullSlots = {}
              /\ event.tag = "File" => n >= event.seg.len ]_vars

\* in the middle of the seven chunks of a symlink: three yielded, four held
C18_Witness ==
    /\ pc = "slots" /\ event.tag = "Symlink"
    /\ out.ev_chunks = 3
    /\ Held = 4
    /\ net.fetched = 2

\* the chunks among cs that were flushed out of a buffer (a pad is a slice
\* of the helper's zeroes, not a flush)
Flushed(cs) == Len(SelectSeq(cs, LAMBDA c : ~IsZeroes(c)))

\* the buffer that is `written` after k more swaps
AfterSwaps(th, k) == IF k % 2 = 0 THEN th.written.id ELSE th.other.id

(***************************************************************************)
(* C19: whenever the tar helper has returned to its caller, after          *)
(* apply_file, apply_directory, apply_symlink or buffer_file_contents,     *)
(* with Ok or with an error, both of its buffers are empty and they have   *)
(* been swapped once per chunk flushed by the call.  Every chunk produced  *)
(* is what was appended since the previous flush (one header, one run of   *)
(* literal bytes or one content range, never with bytes of an earlier      *)
(* chunk before it), and a held chunk is yielded once.                     *)
(***************************************************************************)
C19_Buffers ==
    [][ /\ pc # "panicked" =>
              /\ tar_helper.written.data = <<>> /\ tar_helper.other.data = <<>>
              /\ {tar_helper.written.id, tar_helper.other.id} = {"a", "b"}
        /\ \A i \in FullSlots : Len(ret[i][1]) = 1
        /\ Yields => Len(out'.last[1]) = 1
        /\ (Consumes /\ pc' = "slots") =>
              tar_helper'.written.id = AfterSwaps(tar_helper, Flushed(SlotChunks(ret')))
        /\ (Yields /\ pc = "content" /\ IsContent(out'.last[1])) =>
              /\ tar_helper'.written.id = AfterSwaps(tar_helper, 1)
              /\ out'.last[1][1].off = event.seg.off + n
        /\ (Yields /\ ~(pc = "content" /\ IsContent(out'.last[1]))) =>
              tar_helper' = tar_helper
        /\ (Yields /\ pc = "slots") => Held' = Held - 1
        /\ pc' = "failed" =>
              /\ tar_helper'.written = tar_helper.written
              /\ tar_helper'.other = tar_helper.other ]_vars

\* the seven chunks of a symlink are made: five flushes, the buffers have
\* changed places
C19_Witness ==
    /\ pc = "slots" /\ Held = SymlinkSlots
    /\ net.fetched = 1
    /\ tar_helper.written.id = "b"
    /\ tar_helper.written.data = <<>>

\* the chunks a tar helper fresh from with_buffer_sizes makes for event ev
FreshChunks(ev) ==
    LET fresh == with_buffer_sizes(BufSize)
        r == IF ev.tag = "File"
             THEN apply_file(fresh, ev.path, ev.metadata[1], ev.total_size)
             ELSE IF ev.tag = "Directory"
             THEN apply_directory(fresh, ev.path, ev.metadata[1])
             ELSE apply_symlink(fresh, ev.path, ev.target, ev.metadata[1])
    IN SlotChunks(r.ret)

\* the final header of the entry whose headers are out
FinalHeader == out.entry[Len(out.entry)][1].hdr

(***************************************************************************)
(* C20 as stated: the bytes emitted for an entry depend only on its own    *)
(* path, metadata, size and target, not on the entries emitted before it   *)
(* through the reused header template: they are the bytes a fresh helper   *)
(* makes; the header of a file or directory has an empty link name field   *)
(* even after a symlink, and the header of a symlink with an oversized     *)
(* target carries no link name of an earlier symlink.                      *)
(***************************************************************************)
C20_Original ==
    HeadersOut =>
        /\ out.entry = FreshChunks(event)
        /\ event.tag \in {"File", "Directory"} =>
              FinalHeader.linkname = Zeros(LinkNameLen)
        /\ (event.tag = "Symlink" /\ Len(event.target) > LinkNameLen) =>
              FieldText(FinalHeader.linkname) = <<>>

\* what does hold for the first entry of a stream only
C20_FirstEntryOnly ==
    (HeadersOut /\ net.fetched = 1) =>
        /\ out.entry = FreshChunks(event)
        /\ event.tag \in {"File", "Directory"} =>
              FinalHeader.linkname = Zeros(LinkNameLen)
        /\ (event.tag = "Symlink" /\ Len(event.target) > LinkNameLen) =>
              FieldText(FinalHeader.linkname) = <<>>

\* the header of a file or directory went out with the target of the
\* symlink before it in its link name field
C20_LinkNameLeaks ==
    /\ HeadersOut
    /\ event.tag \in {"File", "Directory"}
    /\ FieldText(FinalHeader.linkname) = TextTarget(5)

\* the header of a symlink with an oversized target went out with the
\* target of the symlink before it in its link name field
C20_StaleTarget ==
    /\ HeadersOut
    /\ event.tag = "Symlink" /\ Len(event.target) > LinkNameLen
    /\ FieldText(FinalHeader.linkname) # <<>>

\* short of the link name: the header of an entry whose name is shorter
\* than the one before it keeps bytes of the earlier name behind its NUL
C20_NameResidue ==
    /\ HeadersOut
    /\ FinalHeader.linkname = Zeros(LinkNameLen)
    /\ Len(event.path) < NameLen
    /\ FinalHeader.name # event.path \o Zeros(NameLen - Len(event.path))

\* header h has the name and mode of the long-name template: the name
\* "././@LongLink" with zeroes after it, mode 0644
IsLongTemplate(h) ==
    /\ h.name = LongLinkName \o Zeros(NameLen - Len(LongLinkName))
    /\ octal_from(h.mode, 0) = Mode0644
    /\ h.mode = octal_into(h.mode, Mode0644)

\* chunk c is the marker header of the given type for data
IsMarkerFor(c, type, data) ==
    /\ IsHeader(c)
    /\ IsLongTemplate(c[1].hdr)
    /\ c[1].hdr.typeflag = type
    /\ octal_from(c[1].hdr.size, 0) = Len(data) + 1
    /\ c[1].hdr.size = octal_into(c[1].hdr.size, Len(data) + 1)

\* the positions in entry e of the headers that are markers
Markers(e) ==
    {i \in 1..Len(e) :
        IsHeader(e[i]) /\ e[i][1].hdr.typeflag \notin {Regular, Directory, Symlink}}

(***************************************************************************)
(* C21: one long-name template serves both extensions, and yet after any   *)
(* sequence of entries the marker header made for an oversized path has    *)
(* type 'L' and size = path length + 1, the marker header made for an      *)
(* oversized symlink target has type 'K' and size = target length + 1, no  *)
(* type or size of an earlier marker shows in a later one, and the name of *)
(* the marker is always `././@LongLink` with mode 0644; an entry has no    *)
(* other marker than these.                                                *)
(***************************************************************************)
C21_Markers ==
    /\ IsLongTemplate(tar_helper.long_filename_header)
    /\ HeadersOut =>
          LET e == out.entry
              a == NameChunks(event.path)
              longTarget == event.tag = "Symlink" /\ Len(event.target) > LinkNameLen
          IN /\ Markers(e) = (IF a > 0 THEN {1} ELSE {})
                                \cup (IF longTarget THEN {a + 1} ELSE {})
             /\ a > 0 => IsMarkerFor(e[1], GNULongName, event.path)
             /\ longTarget => IsMarkerFor(e[a + 1], GNULongLink, event.target)

\* the 'L' marker of a file or directory is out as part of the second
\* entry; the first entry took five blocks, which only a symlink with a
\* long path and a long target does, so the template was last used as 'K'
C21_Witness ==
    /\ HeadersOut
    /\ event.tag \in {"File", "Directory"}
    /\ Len(event.path) = LongLen
    /\ net.fetched = 2
    /\ out.bytes = 5 * BlockSize + 3 * BlockSize

\* a symlink with a path of 101 bytes and a target of 511 bytes is out: the
\* 'K' marker follows the 'L' marker of another size
C21_WitnessBoth ==
    /\ SymlinkOut
    /\ Len(event.path) = LongLen
    /\ Len(event.target) = BlockSize - 1
    /\ Markers(out.entry) = {1, 4}

====
